---------------------------- MODULE Spec2Model ----------------------------
(* Model of the fake_enum! macro of src/src/lib.rs.                        *)
(*                                                                         *)
(* An invocation  fake_enum!{ #[repr($t)] $vis enum [struct] $name {       *)
(* $item = $expr, ... } }  is expanded by one of the macro's two arms and  *)
(* the expansion is compiled by rustc.  The model keeps the invocation     *)
(* (the macro's metavariables), the outcome of expanding and compiling it  *)
(* (the generated constants and the arms of the generated Debug::fmt), and *)
(* the result of the last operation a caller performed on the generated    *)
(* type: formatting an instance, comparing two instances, transmuting a    *)
(* raw integer to the type and back.                                       *)
(*                                                                         *)
(* Text is a sequence of one-character strings, so that stringify!, the    *)
(* "{}({})" format string and the decimal Display of an integer are        *)
(* computed character by character.                                        *)
EXTENDS Integers, Sequences, FiniteSets, TLC

\* ---------------------------------------------------------------- bounds

\* Longest variants list `$($item = $expr),*` of an invocation.
MaxVariants == 2

\* Raw integers 0..MaxRaw (besides the extremes of the repr type) are
\* transmuted to the generated type.
MaxRaw == 2

\* ------------------------------------------------- rust integer types

\* The integer types that occur as `$t` or as a literal's suffix.
IntTypes == {"u8", "i8", "u16"}

\* The types used as `#[repr($t)]`.
ReprTypes == {"u8", "i8"}

Bits(t) == IF t = "u16" THEN 16 ELSE 8

Signed(t) == t = "i8"

Pow2(n) == 2 ^ n

MinOf(t) == IF Signed(t) THEN 0 - Pow2(Bits(t) - 1) ELSE 0

MaxOf(t) == IF Signed(t) THEN Pow2(Bits(t) - 1) - 1 ELSE Pow2(Bits(t)) - 1

RangeOf(t) == MinOf(t) .. MaxOf(t)

\* Two's-complement truncation of the integer n to the type t: what an
\* integer-to-integer `as` cast, and rustc's evaluation of an out-of-range
\* literal, produce.
Wrap(n, t) ==
    LET m == n % Pow2(Bits(t))
    IN  IF Signed(t) /\ m >= Pow2(Bits(t) - 1) THEN m - Pow2(Bits(t)) ELSE m

\* ------------------------------------------------------------ literals

\* `$expr:literal`: an optional minus sign, a magnitude and an optional type
\* suffix ("" when the literal is unsuffixed).
Lit(neg, mag, suffix) == [neg |-> neg, mag |-> mag, suffix |-> suffix]

\* The literals of the modelled invocations:  0  1  256  -1  1u8  256u16.
Literals ==
    { Lit(FALSE, 0, ""), Lit(FALSE, 1, ""), Lit(FALSE, 256, ""),
      Lit(TRUE, 1, ""), Lit(FALSE, 1, "u8"), Lit(FALSE, 256, "u16") }

\* The integer a literal denotes.
LitValue(lit) == IF lit.neg THEN 0 - lit.mag ELSE lit.mag

\* The type rustc gives the literal where type t is expected: its suffix,
\* or the expected integer type for an unsuffixed literal (the operand of
\* `as $t` and the pattern of a field of type $t are both typed $t).
LitType(lit, t) == IF lit.suffix = "" THEN t ELSE lit.suffix

\* The literal does not fit its type (rustc lint overflowing_literals).
\* A negated literal of a signed type may reach the type's minimum.
LitOverflows(lit, t) ==
    LET ty == LitType(lit, t)
    IN  IF lit.neg /\ Signed(ty) THEN lit.mag > Pow2(Bits(ty) - 1)
                                 ELSE lit.mag > MaxOf(ty)

\* Unary minus does not apply to an unsigned type (E0600).
NegatesUnsigned(lit, t) == lit.neg /\ ~Signed(LitType(lit, t))

\* The value of the literal in its own type.
LitEval(lit, t) == Wrap(LitValue(lit), LitType(lit, t))

\* ---------------------------------------------------------------- text

\* Identifiers of the modelled invocations (the names of the macro's doc
\* example).
Foo == <<"F", "o", "o">>

Bar == <<"B", "a", "r">>

Baz == <<"B", "a", "z">>

Idents == {Foo, Bar, Baz}

\* `$name`: the identifier of the generated type.
name == Foo

\* Variation of Stringify: the text of the path `$name::$item`.
StringifyPath(ident) == name \o <<":", ":">> \o ident

\* ::core::stringify!(ident): the identifier's text.
Stringify(ident) == ident

DigitChars == <<"0", "1", "2", "3", "4", "5", "6", "7", "8", "9">>

RECURSIVE DisplayNat(_)
\* Decimal digits of a natural number, most significant first.
DisplayNat(n) ==
    IF n < 10 THEN <<DigitChars[n + 1]>>
              ELSE DisplayNat(n \div 10) \o <<DigitChars[(n % 10) + 1]>>

\* Variation of DisplayInt: the magnitude alone, the sign dropped.
DisplayMagnitude(n) == DisplayNat(IF n < 0 THEN 0 - n ELSE n)

\* `{}` of an integer (core::fmt::Display): base 10, a minus sign before a
\* negative value.
DisplayInt(n) == IF n < 0 THEN <<"-">> \o DisplayNat(0 - n) ELSE DisplayNat(n)

\* ------------------------------------------------- the generated type

\* `struct $name($t)`: one field, .0, of the repr type.
Inst(raw) == [f0 |-> raw]

\* Variation of DerivedEq: the fields compared through their low seven bits.
EqLowBits(x, y) == x.f0 % 128 = y.f0 % 128

\* #[derive(PartialEq)] on the tuple struct: fieldwise equality.
DerivedEq(x, y) == x.f0 = y.f0

\* Variation of Transmute: the integer is taken through a signed byte.
TransmuteViaSigned(v) == Inst(IF v > 127 THEN v - 256 ELSE v)

\* #[repr(transparent)]: transmute::<$t, $name> keeps the bits.
Transmute(v) == Inst(v)

\* transmute::<$name, $t>.
TransmuteBack(x) == x.f0

\* ------------------------------------------------------- the two arms

\* Variation of ConstExpr: the number written, never brought to $t.
ConstExprNoCast(expr, t) == Inst(LitValue(expr))

\* `$name($expr as $t)`: the literal, evaluated in its own type, cast to $t.
ConstExpr(expr, t) == Inst(Wrap(LitEval(expr, t), t))

\* The value the pattern `Self($expr)` compares the field with.
PatValue(expr, t) == LitEval(expr, t)

\* Flat arm: `$vis const $item: $name = $name($expr as $t);` for each
\* variant, in the scope of the invocation.
FlatConsts(variants, t, vis) ==
    [i \in DOMAIN variants |->
        [item |-> variants[i].item, vis |-> vis, scope |-> "enclosing",
         inst |-> ConstExpr(variants[i].expr, t)]]

\* Flat arm: `Self($expr) => f.write_str(::core::stringify!($item))` for
\* each variant, in declaration order.
FlatArms(variants, t) ==
    [i \in DOMAIN variants |->
        [pat  |-> PatValue(variants[i].expr, t),
         text |-> Stringify(variants[i].item)]]

\* Variation of NestedConsts: the constants take the type's visibility.
NestedConstsTypeVis(variants, t, vis) ==
    [i \in DOMAIN variants |->
        [item |-> variants[i].item, vis |-> vis, scope |-> "type",
         inst |-> ConstExpr(variants[i].expr, t)]]

\* Nested arm: `pub const $item: $name = $name($expr as $t);` for each
\* variant, inside `impl $name`.
NestedConsts(variants, t, vis) ==
    [i \in DOMAIN variants |->
        [item |-> variants[i].item, vis |-> "pub", scope |-> "type",
         inst |-> ConstExpr(variants[i].expr, t)]]

\* Nested arm: `Self($expr) => f.write_str(::std::stringify!($item))` for
\* each variant, in declaration order.
NestedArms(variants, t) ==
    [i \in DOMAIN variants |->
        [pat  |-> PatValue(variants[i].expr, t),
         text |-> Stringify(variants[i].item)]]

\* Variation of FallbackText: the integer is left out.
FallbackTextNoValue(self) == Stringify(name) \o <<"(", ")">>

\* The fallback arm of both shapes:
\* `e => f.write_fmt(format_args!("{}({})", stringify!($name), e.0))`.
FallbackText(self) == Stringify(name) \o <<"(">> \o DisplayInt(self.f0) \o <<")">>

\* Variation of FirstMatch: the last matching arm wins.
LastMatch(arms, self) ==
    IF \E i \in DOMAIN arms : arms[i].pat = self.f0
    THEN CHOOSE i \in DOMAIN arms :
            /\ arms[i].pat = self.f0
            /\ \A j \in DOMAIN arms : arms[j].pat = self.f0 => j <= i
    ELSE 0

\* The arm `match self` selects: the first arm, in source order, whose
\* pattern matches (0 when only the fallback arm does).
FirstMatch(arms, self) ==
    IF \E i \in DOMAIN arms : arms[i].pat = self.f0
    THEN CHOOSE i \in DOMAIN arms :
            /\ arms[i].pat = self.f0
            /\ \A j \in DOMAIN arms : arms[j].pat = self.f0 => i <= j
    ELSE 0

\* Debug::fmt of the generated type, as format!("{:?}", self) returns it.
DebugFmt(arms, self) ==
    LET i == FirstMatch(arms, self)
    IN  IF i = 0 THEN FallbackText(self) ELSE arms[i].text

\* -------------------------------------------------- compiling the output

ItemsDistinct(variants) ==
    \A i, j \in DOMAIN variants : variants[i].item = variants[j].item => i = j

\* The constant definition of one variant compiles: the minus sign applies
\* to the literal's type, and the literal fits it unless the invoking crate
\* allows the deny-by-default lint overflowing_literals.
ConstCompiles(expr, t, lint) ==
    /\ ~NegatesUnsigned(expr, t)
    /\ (lint = "deny" => ~LitOverflows(expr, t))

\* Variation of PatCompiles: a literal of any integer type is a pattern.
PatCompilesAnyType(expr, t) == TRUE

\* The match arm of one variant compiles: the literal pattern has the type
\* of the field it is matched against.
PatCompiles(expr, t) == LitType(expr, t) = t

\* Flat arm: the constants are items of the invoking scope, beside the tuple
\* struct $name, whose constructor is a value named $name; the Debug impl
\* names ::core only.
FlatCompiles(variants, t, lint, std) ==
    /\ ItemsDistinct(variants)
    /\ \A i \in DOMAIN variants : variants[i].item # name
    /\ \A i \in DOMAIN variants :
          ConstCompiles(variants[i].expr, t, lint) /\ PatCompiles(variants[i].expr, t)

\* Nested arm: the constants are associated items of $name; the Debug impl
\* names ::std::fmt, which a no_std crate does not have.
NestedCompiles(variants, t, lint, std) ==
    /\ ItemsDistinct(variants)
    /\ std
    /\ \A i \in DOMAIN variants :
          ConstCompiles(variants[i].expr, t, lint) /\ PatCompiles(variants[i].expr, t)

\* What the build holds before and after a failed expansion.
NoOutput(status) == [status |-> status, consts |-> <<>>, arms |-> <<>>]

\* fake_enum!{ #[repr($t)] $vis enum $name { ... } }
ExpandFlat(variants, t, vis, lint, std) ==
    IF FlatCompiles(variants, t, lint, std)
    THEN [status |-> "ok", consts |-> FlatConsts(variants, t, vis),
          arms |-> FlatArms(variants, t)]
    ELSE NoOutput("error")

\* fake_enum!{ #[repr($t)] $vis enum struct $name { ... } }
ExpandNested(variants, t, vis, lint, std) ==
    IF NestedCompiles(variants, t, lint, std)
    THEN [status |-> "ok", consts |-> NestedConsts(variants, t, vis),
          arms |-> NestedArms(variants, t)]
    ELSE NoOutput("error")

\* macro_rules! fake_enum: the arm is chosen by the `struct` keyword.
Expand(shape, variants, t, vis, lint, std) ==
    IF shape = "flat" THEN ExpandFlat(variants, t, vis, lint, std)
                      ELSE ExpandNested(variants, t, vis, lint, std)

\* ------------------------------------------------------------------ state

VARIABLES
    shape,      \* "flat" (`enum $name`) or "nested" (`enum struct $name`)
    t,          \* `$t`, the repr type
    vis,        \* `$vis`: "" (private) or "pub"
    variants,   \* `$($item = $expr),*`, in declaration order
    lint,       \* level of overflowing_literals where the macro is invoked
    std,        \* the invoking crate links std (FALSE: it is #![no_std])
    gen,        \* the build: pending, error, or the generated definitions
    op,         \* the last operation performed on the generated type
    lhs,        \* its (first) operand: how it was made (a constant's name, or
                \* the raw integer transmuted), and the instance
    rhs,        \* its second operand (op = "eq")
    out,        \* op = "fmt": the text format!("{:?}", lhs) returned
    same,       \* op = "eq": the value of lhs == rhs
    back        \* op = "roundtrip": the integer transmuted back

vars == <<shape, t, vis, variants, lint, std, gen, op, lhs, rhs, out, same, back>>

invocation == <<shape, t, vis, variants, lint, std>>

Variants == [item : Idents, expr : Literals]

VariantLists == UNION {[1..n -> Variants] : n \in 0..MaxVariants}

\* An operand that is no instance (the operation has no such operand).
NoOperand == [via |-> "none", item |-> <<>>, raw |-> 0, inst |-> Inst(0)]

Init ==
    /\ shape \in {"flat", "nested"}
    /\ t \in ReprTypes
    /\ vis \in {"", "pub"}
    /\ variants \in VariantLists
    /\ lint \in {"deny", "allow"}
    /\ std \in BOOLEAN
    /\ gen = NoOutput("pending")
    /\ op = "none"
    /\ lhs = NoOperand
    /\ rhs = NoOperand
    /\ out = <<>>
    /\ same = FALSE
    /\ back = 0

\* The macro is expanded and its output compiled.
Generate ==
    /\ gen.status = "pending"
    /\ gen' = Expand(shape, variants, t, vis, lint, std)
    /\ UNCHANGED <<invocation, op, lhs, rhs, out, same, back>>

\* An instance named by a generated constant (`Bar`, or `Foo::Bar`).
UseConst(i) ==
    [via |-> "const", item |-> gen.consts[i].item, raw |-> 0, inst |-> gen.consts[i].inst]

\* An instance made of a raw integer: transmute::<$t, $name>(v).
UseRaw(v) == [via |-> "raw", item |-> <<>>, raw |-> v, inst |-> Transmute(v)]

\* The raw integers the callers transmute: the extremes of $t, -1 when $t
\* is signed, and 0..MaxRaw.
RawValues == ({MinOf(t), MaxOf(t), MaxOf(t) - 1, 0 - 1} \cup (0..MaxRaw)) \cap RangeOf(t)

Operands == {UseConst(i) : i \in DOMAIN gen.consts} \cup {UseRaw(v) : v \in RawValues}

\* format!("{:?}", x)
Format ==
    /\ gen.status = "ok"
    /\ \E x \in Operands :
          /\ lhs' = x
          /\ out' = DebugFmt(gen.arms, x.inst)
    /\ op' = "fmt"
    /\ rhs' = NoOperand
    /\ same' = FALSE
    /\ back' = 0
    /\ UNCHANGED <<invocation, gen>>

\* x == y
Compare ==
    /\ gen.status = "ok"
    /\ \E x \in Operands, y \in Operands :
          /\ lhs' = x
          /\ rhs' = y
          /\ same' = DerivedEq(x.inst, y.inst)
    /\ op' = "eq"
    /\ out' = <<>>
    /\ back' = 0
    /\ UNCHANGED <<invocation, gen>>

\* transmute::<$name, $t>(transmute::<$t, $name>(v))
RoundTrip ==
    /\ gen.status = "ok"
    /\ \E v \in RawValues :
          /\ lhs' = UseRaw(v)
          /\ back' = TransmuteBack(Transmute(v))
    /\ op' = "roundtrip"
    /\ rhs' = NoOperand
    /\ out' = <<>>
    /\ same' = FALSE
    /\ UNCHANGED <<invocation, gen>>

Next == Generate \/ Format \/ Compare \/ RoundTrip

Spec == Init /\ [][Next]_vars

\* ------------------------------------------------------------ properties

\* The invocation was accepted: its expansion compiled.
Accepted == gen.status = "ok"

\* The value of the i-th declared variant: its literal, as an integer of
\* the repr type.
ValueOf(i) == LitEval(variants[i].expr, t)

\* The position of a declared name (names are distinct once accepted).
IndexOf(item) == CHOOSE i \in DOMAIN variants : variants[i].item = item

\* Some declared variant has the value v.
Named(v) == \E i \in DOMAIN variants : ValueOf(i) = v

\* The earliest declared variant that has the value v.
Earliest(v) ==
    CHOOSE i \in DOMAIN variants :
        /\ ValueOf(i) = v
        /\ \A j \in DOMAIN variants : ValueOf(j) = v => i <= j

IsDigit(c) == \E d \in DOMAIN DigitChars : DigitChars[d] = c

DigitValue(c) == (CHOOSE d \in DOMAIN DigitChars : DigitChars[d] = c) - 1

RECURSIVE ParseNat(_)
\* The number a sequence of decimal digits denotes.
ParseNat(s) ==
    IF s = <<>> THEN 0
    ELSE ParseNat(SubSeq(s, 1, Len(s) - 1)) * 10 + DigitValue(s[Len(s)])

\* s is the base-10 numeral of v: digits without a leading zero, preceded
\* by a minus sign exactly when v is negative.
IsDecimalOf(s, v) ==
    LET neg    == Len(s) > 0 /\ s[1] = "-"
        digits == IF neg THEN Tail(s) ELSE s
    IN  /\ Len(digits) >= 1
        /\ \A k \in DOMAIN digits : IsDigit(digits[k])
        /\ (Len(digits) > 1 => digits[1] # "0")
        /\ neg = (v < 0)
        /\ ParseNat(digits) = (IF v < 0 THEN 0 - v ELSE v)

\* C1, as stated: formatting the constant of any declared pair yields that
\* pair's name.
C1_AnyConstFormatsAsItsName ==
    (op = "fmt" /\ lhs.via = "const") => out = lhs.item

\* C1, amended: formatting the constant of a declared pair yields exactly the
\* characters of its name, provided no variant declared before it has the
\* same value.
C1_NamedFormatting ==
    (/\ op = "fmt"
     /\ lhs.via = "const"
     /\ \A j \in DOMAIN variants :
           j < IndexOf(lhs.item) => ValueOf(j) # ValueOf(IndexOf(lhs.item)))
    => out = lhs.item

C1_Witness ==
    /\ op = "fmt"
    /\ lhs.via = "const"
    /\ Len(variants) = 2
    /\ lhs.item = variants[2].item
    /\ ValueOf(1) # ValueOf(2)
    /\ out = Baz

\* C2: formatting an instance whose integer is the value of no declared
\* variant yields the type's name, "(", the base-10 numeral of the integer
\* (with a minus sign when it is negative), ")", and nothing else.
C2_UnnamedFormatting ==
    (op = "fmt" /\ lhs.via = "raw" /\ ~Named(lhs.raw))
    => LET n == Len(name)
       IN  /\ Len(out) >= n + 3
           /\ SubSeq(out, 1, n) = name
           /\ out[n + 1] = "("
           /\ out[Len(out)] = ")"
           /\ IsDecimalOf(SubSeq(out, n + 2, Len(out) - 1), lhs.raw)

C2_Witness ==
    /\ op = "fmt"
    /\ lhs.via = "raw"
    /\ lhs.raw = 0 - 128
    /\ Len(variants) = 2
    /\ ~Named(lhs.raw)
    /\ out = <<"F", "o", "o", "(", "-", "1", "2", "8", ")">>

\* C3: the formatter emits the name of the earliest declared variant whose
\* value is the instance's integer; two constants declared with the same
\* value are accepted, compare equal, and both format as the earlier name.
C3_TieBreak ==
    /\ (op = "fmt" /\ lhs.via = "const")
          => out = variants[Earliest(ValueOf(IndexOf(lhs.item)))].item
    /\ (op = "fmt" /\ lhs.via = "raw" /\ Named(lhs.raw))
          => out = variants[Earliest(lhs.raw)].item
    /\ (/\ op = "eq" /\ lhs.via = "const" /\ rhs.via = "const"
        /\ ValueOf(IndexOf(lhs.item)) = ValueOf(IndexOf(rhs.item)))
          => same

C3_Witness ==
    /\ op = "fmt"
    /\ lhs.via = "const"
    /\ Len(variants) = 2
    /\ variants[1].item = Bar
    /\ lhs.item = Baz
    /\ ValueOf(1) = ValueOf(2)
    /\ out = Bar

C3_WitnessEq ==
    /\ op = "eq"
    /\ lhs.item = Bar
    /\ rhs.item = Baz
    /\ ValueOf(IndexOf(Bar)) = ValueOf(IndexOf(Baz))
    /\ same

\* The integer an operand was made of: the raw integer transmuted, or the
\* declared value of the variant whose constant was named.
Underlying(x) == IF x.via = "raw" THEN x.raw ELSE ValueOf(IndexOf(x.item))

\* C4: the constant of each declared pair holds exactly the pair's value
\* (the number written, whenever overflowing_literals is denied), and the
\* instance transmuted from that raw integer equals the constant.
C4_ConstantValue ==
    /\ Accepted =>
          \A i \in DOMAIN variants :
             /\ gen.consts[i].item = variants[i].item
             /\ TransmuteBack(gen.consts[i].inst) = ValueOf(i)
             /\ (lint = "deny" =>
                    TransmuteBack(gen.consts[i].inst) = LitValue(variants[i].expr))
    /\ (/\ op = "eq" /\ lhs.via = "raw" /\ rhs.via = "const"
        /\ lhs.raw = ValueOf(IndexOf(rhs.item)))
          => same

C4_Witness ==
    /\ op = "eq"
    /\ lhs.via = "raw"
    /\ lhs.raw = 1
    /\ rhs.via = "const"
    /\ rhs.item = Baz
    /\ Len(variants) = 2
    /\ variants[2] = [item |-> Baz, expr |-> Lit(FALSE, 1, "")]
    /\ same

\* C5: two instances compare equal exactly when the integers they were made
\* of are equal, whether each came from a constant or from a raw integer.
C5_EqualityIsBitwise ==
    op = "eq" => (same <=> Underlying(lhs) = Underlying(rhs))

C5_Witness ==
    /\ op = "eq"
    /\ lhs.via = "const"
    /\ rhs.via = "raw"
    /\ Underlying(lhs) = rhs.raw
    /\ same

C5_WitnessDistinct ==
    /\ op = "eq"
    /\ lhs.via = "const"
    /\ rhs.via = "const"
    /\ Underlying(lhs) # Underlying(rhs)
    /\ ~same

OtherShape == IF shape = "flat" THEN "nested" ELSE "flat"

OtherGen == Expand(OtherShape, variants, t, vis, lint, std)

\* Both shapes generate constants of the same names and integers, declared
\* in different places, and formatters that return the same text.
SameOutput ==
    /\ DOMAIN gen.consts = DOMAIN OtherGen.consts
    /\ \A i \in DOMAIN gen.consts :
          /\ gen.consts[i].item = OtherGen.consts[i].item
          /\ gen.consts[i].inst = OtherGen.consts[i].inst
          /\ gen.consts[i].scope # OtherGen.consts[i].scope
    /\ \A x \in Operands :
          DebugFmt(gen.arms, x.inst) = DebugFmt(OtherGen.arms, x.inst)
    /\ (op = "fmt" => out = DebugFmt(OtherGen.arms, lhs.inst))

\* C7: an invocation that one shape accepts is accepted in the other shape
\* too (unless a variant takes the type's own name, which only the invoking
\* scope forbids), and both generate the same constants and formatter.
C7_ShapesDifferOnlyInScope ==
    (Accepted /\ \A i \in DOMAIN variants : variants[i].item # name) =>
        /\ OtherGen.status = "ok"
        /\ SameOutput

\* C7, restricted: where both shapes accept the invocation, their outputs
\* agree.
C7_SameOutputWhereBothAccept ==
    (Accepted /\ OtherGen.status = "ok") => SameOutput

C8_WitnessSuffix ==
    /\ gen.status = "error"
    /\ lint = "allow"
    /\ shape = "flat"
    /\ t = "u8"
    /\ variants = <<[item |-> Bar, expr |-> Lit(FALSE, 256, "u16")]>>

\* C9: the flat shape declares each constant in the invoking scope with the
\* visibility given for the type; the nested shape declares each constant
\* inside the type, pub, whatever the type's visibility.
C9_ConstantVisibility ==
    Accepted =>
        \A i \in DOMAIN gen.consts :
           /\ shape = "flat" =>
                 gen.consts[i].scope = "enclosing" /\ gen.consts[i].vis = vis
           /\ shape = "nested" =>
                 gen.consts[i].scope = "type" /\ gen.consts[i].vis = "pub"

C9_Witness ==
    /\ Accepted
    /\ shape = "nested"
    /\ vis = ""
    /\ Len(gen.consts) = 2
    /\ gen.consts[2].vis = "pub"

\* C10: an instance formats to the text just returned exactly when it
\* equals the instance formatted, and a constant whose name is that text
\* equals the instance formatted.
C10_FormatterInjective ==
    (Accepted /\ op = "fmt") =>
        /\ \A y \in Operands :
              (DebugFmt(gen.arms, y.inst) = out) <=> DerivedEq(y.inst, lhs.inst)
        /\ \A i \in DOMAIN gen.consts :
              out = gen.consts[i].item => DerivedEq(gen.consts[i].inst, lhs.inst)

C10_Witness ==
    /\ Accepted
    /\ op = "fmt"
    /\ lhs.via = "raw"
    /\ Len(variants) = 2
    /\ ValueOf(1) = ValueOf(2)
    /\ lhs.raw = ValueOf(2)
    /\ out = variants[1].item

=============================================================================
